---- MODULE Spec2Model ----
(***************************************************************************)
(* Naver keyword proxy (src/main.py): module start-up and the three        *)
(* request handlers health, blog_total and search_volume.                  *)
(*                                                                         *)
(* The handlers are synchronous functions sharing only the configuration   *)
(* read at import time, which is never written afterwards, so requests do  *)
(* not interact: the model follows one request at a time from its arrival  *)
(* to its response, then accepts the next one.  A handler that calls an    *)
(* upstream API is split at the blocking requests.get call: the step that  *)
(* issues the call and the step that handles what came back.               *)
(*                                                                         *)
(* JSON values are tagged records, Python strings that the code parses or  *)
(* passes through as data are sequences of one-character strings.          *)
(***************************************************************************)
EXTENDS Integers, Sequences, FiniteSets, TLC

VARIABLES
    env,        \* the five configuration values, as os.getenv returns them
    phase,      \* "importing" | "serving" | "crashed"
    ctl,        \* where the current request is: "idle", "<handler>_get", "done"
    endpoint,   \* the handler serving the current request
    arg,        \* its query / keyword parameter
    outbound,   \* the requests.get calls issued for the current request
    upstream,   \* what the outbound call came back with
    response    \* what the handler returned or raised

vars == <<env, phase, ctl, endpoint, arg, outbound, upstream, response>>

(***************************************************************************)
(* Bounds                                                                  *)
(***************************************************************************)
\* Number of related-keyword entries that follow the first keywordList element.
MaxTail == 2

(***************************************************************************)
(* JSON values as Python sees them after resp.json()                       *)
(***************************************************************************)
JNull == [k |-> "null"]
JBool(b) == [k |-> "bool", b |-> b]
JInt(n) == [k |-> "int", n |-> n]
\* A finite float, held in tenths: JFloat(27) is 2.7.
JFloat(t) == [k |-> "float", tenths |-> t]
\* json.loads("1e999") and json.loads("Infinity") give float("inf").
JInf == [k |-> "inf"]
JNaN == [k |-> "nan"]
JStr(s) == [k |-> "str", s |-> s]
JList(xs) == [k |-> "list", xs |-> xs]
\* items: a function from the keys present to their values.
JObj(items) == [k |-> "obj", items |-> items]

EmptyDict == <<>>

(***************************************************************************)
(* Python built-ins used by the handlers                                   *)
(***************************************************************************)
Whitespace == {" ", "\t", "\n"}
Digits == {"0", "1", "2", "3", "4", "5", "6", "7", "8", "9"}

DigitVal(c) ==
    CASE c = "0" -> 0 [] c = "1" -> 1 [] c = "2" -> 2 [] c = "3" -> 3
      [] c = "4" -> 4 [] c = "5" -> 5 [] c = "6" -> 6 [] c = "7" -> 7
      [] c = "8" -> 8 [] c = "9" -> 9

RECURSIVE LStrip(_)
LStrip(s) == IF s # <<>> /\ Head(s) \in Whitespace THEN LStrip(Tail(s)) ELSE s

RECURSIVE RStrip(_)
RStrip(s) ==
    IF s # <<>> /\ s[Len(s)] \in Whitespace
    THEN RStrip(SubSeq(s, 1, Len(s) - 1))
    ELSE s

\* The digit part of an int literal: digits, single underscores between them.
DigitsOK(s) ==
    /\ s # <<>>
    /\ s[1] \in Digits
    /\ s[Len(s)] \in Digits
    /\ \A i \in 1..Len(s) : s[i] \in Digits \cup {"_"}
    /\ \A i \in 1..(Len(s) - 1) : ~(s[i] = "_" /\ s[i + 1] = "_")

RECURSIVE DigitsValue(_, _)
DigitsValue(s, acc) ==
    IF s = <<>> THEN acc
    ELSE IF Head(s) = "_" THEN DigitsValue(Tail(s), acc)
    ELSE DigitsValue(Tail(s), 10 * acc + DigitVal(Head(s)))

\* int(s) for a str s, base 10: surrounding whitespace stripped, an optional
\* sign, then the digits; anything else is a ValueError.
PyIntOfStr(s) ==
    LET t == RStrip(LStrip(s))
        signed == t # <<>> /\ Head(t) \in {"+", "-"}
        body == IF signed THEN Tail(t) ELSE t
        mag == DigitsValue(body, 0)
    IN  IF DigitsOK(body)
        THEN [exc |-> "none", n |-> IF signed /\ Head(t) = "-" THEN -mag ELSE mag]
        ELSE [exc |-> "ValueError"]

\* int(x) of a float: truncation towards zero.
Trunc(t) == IF t >= 0 THEN t \div 10 ELSE -((-t) \div 10)

\* int(v): the value, or the exception it raises.
PyInt(v) ==
    CASE v.k = "int" -> [exc |-> "none", n |-> v.n]
      [] v.k = "bool" -> [exc |-> "none", n |-> IF v.b THEN 1 ELSE 0]
      [] v.k = "float" -> [exc |-> "none", n |-> Trunc(v.tenths)]
      [] v.k = "inf" -> [exc |-> "OverflowError"]
      [] v.k = "nan" -> [exc |-> "ValueError"]
      [] v.k = "str" -> PyIntOfStr(v.s)
      [] OTHER -> [exc |-> "TypeError"]

\* bool(v), as `x or 0` and `not x` test it.
PyTruthy(v) ==
    CASE v.k = "null" -> FALSE
      [] v.k = "bool" -> v.b
      [] v.k = "int" -> v.n # 0
      [] v.k = "float" -> v.tenths # 0
      [] v.k = "str" -> v.s # <<>>
      [] v.k = "list" -> v.xs # <<>>
      [] v.k = "obj" -> DOMAIN v.items # {}
      [] OTHER -> TRUE

\* x or y
PyOr(x, y) == IF PyTruthy(x) THEN x ELSE y

\* d.get(key, default) on a dict d.
DictGet(d, key, default) ==
    IF key \in DOMAIN d.items THEN d.items[key] ELSE default

(***************************************************************************)
(* Configuration read at import time                                       *)
(***************************************************************************)
\* os.getenv(name): None when the variable is unset, else its string.
Unset == [set |-> FALSE]
EnvStr(s) == [set |-> TRUE, val |-> s]
EnvVals == {Unset, EnvStr(""), EnvStr("x1")}

\* bool(x) of an os.getenv result: None and "" are falsy.
EnvTruthy(x) == x.set /\ x.val # ""

Environments ==
    [NAVER_CLIENT_ID : EnvVals, NAVER_CLIENT_SECRET : EnvVals,
     NAVER_AD_API_KEY : EnvVals, NAVER_AD_SECRET_KEY : EnvVals,
     NAVER_AD_CUSTOMER_ID : EnvVals]

\* Mutant of StartupOK: the ad secrets are required at import time too.
StartupOK_AllSecrets(e) ==
    /\ EnvTruthy(e.NAVER_CLIENT_ID)
    /\ EnvTruthy(e.NAVER_CLIENT_SECRET)
    /\ EnvTruthy(e.NAVER_AD_API_KEY)
    /\ EnvTruthy(e.NAVER_AD_SECRET_KEY)
    /\ EnvTruthy(e.NAVER_AD_CUSTOMER_ID)

\* The import-time check: False is the RuntimeError that ends the process.
StartupOK(e) ==
    ~(~EnvTruthy(e.NAVER_CLIENT_ID) \/ ~EnvTruthy(e.NAVER_CLIENT_SECRET))

\* Mutant of AdConfigured: `is None` tests, which let an empty secret through.
AdConfigured_NoneOnly(e) ==
    e.NAVER_AD_API_KEY.set /\ e.NAVER_AD_SECRET_KEY.set /\ e.NAVER_AD_CUSTOMER_ID.set

\* The guard at the top of search_volume: False is the HTTPException(500).
AdConfigured(e) ==
    ~(\/ ~EnvTruthy(e.NAVER_AD_API_KEY)
      \/ ~EnvTruthy(e.NAVER_AD_SECRET_KEY)
      \/ ~EnvTruthy(e.NAVER_AD_CUSTOMER_ID))

(***************************************************************************)
(* Handler results                                                         *)
(***************************************************************************)
None == [kind |-> "none"]

JSONResponse(content) ==
    [kind |-> "JSONResponse", status_code |-> 200, content |-> content]

HTTPException(status_code, detail) ==
    [kind |-> "HTTPException", status_code |-> status_code, detail |-> detail]

\* An exception no handler code catches: the server answers 500.
Unhandled(exc) == [kind |-> "Unhandled", status_code |-> 500, exc |-> exc]

(***************************************************************************)
(* What requests.get comes back with                                       *)
(***************************************************************************)
RequestException(text) == [kind |-> "RequestException", text |-> text]

\* A response whose status is not 200: the handlers read status_code and text.
ErrorResponse(status_code, text) ==
    [kind |-> "Response", status_code |-> status_code, text |-> text]

\* A 200 response: the handlers read status_code and json().
OkResponse(json) == [kind |-> "Response", status_code |-> 200, json |-> json]

\* A 200 body that is not JSON: resp.json() raises.
NotJson == [k |-> "notjson"]

(***************************************************************************)
(* blog_total                                                              *)
(***************************************************************************)
\* The requests.get call of blog_total.
BlogRequest(e, query) ==
    [url |-> "https://openapi.naver.com/v1/search/blog.json",
     headers |-> ("X-Naver-Client-Id" :> e.NAVER_CLIENT_ID.val)
                 @@ ("X-Naver-Client-Secret" :> e.NAVER_CLIENT_SECRET.val),
     params |-> [query |-> query, display |-> 1, start |-> 1, sort |-> "sim"],
     timeout |-> 5]

\* Mutant of BlogNetworkError: the detail leaves out the underlying error.
BlogNetworkError_NoText(e) == HTTPException(502, "Naver blog API call failed")

\* except requests.RequestException as e: the 502 with str(e) in its detail.
\* (The detail's prefix is Korean text in the source.)
BlogNetworkError(e) ==
    HTTPException(502, "Naver blog API call failed: " \o e.text)

\* Mutant of UpstreamError: every upstream error is reported as a 502.
UpstreamError_As502(resp) == HTTPException(502, resp.text)

\* if resp.status_code != 200: raise HTTPException(resp.status_code, resp.text)
UpstreamError(resp) == HTTPException(resp.status_code, resp.text)

\* try: total_int = int(total) / except (TypeError, ValueError): total_int = 0
TotalInt(total) ==
    LET r == PyInt(total)
    IN  IF r.exc \in {"TypeError", "ValueError"} THEN [exc |-> "none", n |-> 0]
        ELSE r

\* blog_total from data = resp.json() to its return.
BlogTotalBody(query, data) ==
    IF data = NotJson THEN Unhandled("JSONDecodeError")
    ELSE IF data.k # "obj" THEN Unhandled("AttributeError")
    ELSE LET total == DictGet(data, "total", JInt(0))
             total_int == TotalInt(total)
         IN  IF total_int.exc # "none" THEN Unhandled(total_int.exc)
             ELSE JSONResponse(("keyword" :> JStr(query))
                               @@ ("total" :> JInt(total_int.n)))

\* blog_total after requests.get has returned or raised.
BlogTotalResult(query, o) ==
    IF o.kind = "RequestException" THEN BlogNetworkError(o)
    ELSE IF o.status_code # 200 THEN UpstreamError(o)
    ELSE BlogTotalBody(query, o.json)

(***************************************************************************)
(* search_volume                                                           *)
(***************************************************************************)
SEARCHAD_BASE_URL == "https://api.searchad.naver.com"
SEARCHAD_URI == "/keywordstool"

\* base64(HMAC-SHA256(secret_key, "timestamp.method.uri")), kept as the term it
\* is computed from: the digest itself is not modelled.
make_searchad_signature(timestamp, method, uri, secret_key) ==
    [b64_hmac_sha256 |-> timestamp \o "." \o method \o "." \o uri,
     key |-> secret_key]

\* The requests.get call of search_volume.
SearchadRequest(e, keyword, timestamp) ==
    LET method == "GET"
        uri == SEARCHAD_URI
        signature ==
            make_searchad_signature(timestamp, method, uri, e.NAVER_AD_SECRET_KEY.val)
    IN  [url |-> SEARCHAD_BASE_URL \o uri,
         headers |-> ("X-Timestamp" :> timestamp)
                     @@ ("X-API-KEY" :> e.NAVER_AD_API_KEY.val)
                     @@ ("X-Customer" :> e.NAVER_AD_CUSTOMER_ID.val)
                     @@ ("X-Signature" :> signature),
         params |-> [hintKeywords |-> keyword, showDetail |-> "1"],
         timeout |-> 10]

\* The HTTPException raised when an ad secret is not set.
\* (The detail is Korean text in the source.)
Misconfigured ==
    HTTPException(500, "Search-ad API keys (NAVER_SEARCH_*) are not set.")

SearchadNetworkError(e) ==
    HTTPException(502, "Naver search-ad API network error: " \o e.text)

\* Mutant of First: kw_list[-1], the last entry instead of the first.
First_Last(kw_list) ==
    CASE kw_list.k = "list" -> [exc |-> "none", v |-> kw_list.xs[Len(kw_list.xs)]]
      [] kw_list.k = "str" -> [exc |-> "none", v |-> JStr(<<kw_list.s[Len(kw_list.s)]>>)]
      [] kw_list.k = "obj" -> [exc |-> "KeyError"]
      [] OTHER -> [exc |-> "TypeError"]

\* first = kw_list[0] for a truthy kw_list: the element, or the exception raised.
First(kw_list) ==
    CASE kw_list.k = "list" -> [exc |-> "none", v |-> kw_list.xs[1]]
      [] kw_list.k = "str" -> [exc |-> "none", v |-> JStr(<<kw_list.s[1]>>)]
      [] kw_list.k = "obj" -> [exc |-> "KeyError"]
      [] OTHER -> [exc |-> "TypeError"]

\* int(first.get(field, "0") or 0)
CountOf(first, field) ==
    PyInt(PyOr(DictGet(first, field, JStr(<<"0">>)), JInt(0)))

\* The response when keywordList is empty or absent.
NoData(keyword) ==
    JSONResponse(("keyword" :> JStr(keyword))
                 @@ ("monthlyPcQcCnt" :> JInt(0))
                 @@ ("monthlyMobileQcCnt" :> JInt(0))
                 @@ ("monthlyTotalQcCnt" :> JInt(0)))

\* Mutant of Total: the mobile count is left out.
Total_PcOnly(pc, mobile) == pc

\* total = pc + mobile
Total(pc, mobile) == pc + mobile

\* "keyword": first.get("relKeyword", keyword)
ResponseKeyword(first, keyword) == DictGet(first, "relKeyword", JStr(keyword))

\* search_volume from `first = kw_list[0]` to its return.
FromFirst(keyword, kw_list) ==
    LET sub == First(kw_list)
    IN  IF sub.exc # "none" THEN Unhandled(sub.exc)
        ELSE IF sub.v.k # "obj" THEN Unhandled("AttributeError")
        ELSE LET first == sub.v
                 pc == CountOf(first, "monthlyPcQcCnt")
                 mobile == CountOf(first, "monthlyMobileQcCnt")
             IN  IF pc.exc # "none" THEN Unhandled(pc.exc)
                 ELSE IF mobile.exc # "none" THEN Unhandled(mobile.exc)
                 ELSE JSONResponse(
                        ("keyword" :> ResponseKeyword(first, keyword))
                        @@ ("monthlyPcQcCnt" :> JInt(pc.n))
                        @@ ("monthlyMobileQcCnt" :> JInt(mobile.n))
                        @@ ("monthlyTotalQcCnt" :> JInt(Total(pc.n, mobile.n))))

\* search_volume from data = resp.json() to its return.
SearchVolumeBody(keyword, data) ==
    IF data = NotJson THEN Unhandled("JSONDecodeError")
    ELSE IF data.k # "obj" THEN Unhandled("AttributeError")
    ELSE LET kw_list == DictGet(data, "keywordList", JList(<<>>))
         IN  IF ~PyTruthy(kw_list) THEN NoData(keyword)
             ELSE FromFirst(keyword, kw_list)

\* search_volume after requests.get has returned or raised.
SearchVolumeResult(keyword, o) ==
    IF o.kind = "RequestException" THEN SearchadNetworkError(o)
    ELSE IF o.status_code # 200 THEN UpstreamError(o)
    ELSE SearchVolumeBody(keyword, o.json)

(***************************************************************************)
(* Inputs: the callers' parameters and the upstreams' answers              *)
(***************************************************************************)
Kiwi == <<"k", "i", "w", "i">>
Fig == <<"f", "i", "g">>
Keywords == {Kiwi, Fig}

\* str(round(time.time() * 1000)) at two instants.
Timestamps == {"1700000000000", "1700000000001"}

\* str(e) of a requests.RequestException: timeout, DNS failure, refused connection.
NetworkErrors ==
    {RequestException("Read timed out. (read timeout)"),
     RequestException("Name or service not known"),
     RequestException("Connection refused")}

ErrorResponses ==
    {ErrorResponse(st, tx) :
        st \in {400, 403, 429, 500},
        tx \in {"", "Forbidden", "{\"errorMessage\":\"Not Exist Permission\"}"}}

\* Values upstream may put in a count field.
CountValues ==
    {JNull, JStr(<<>>), JStr(<<"2", "0", "0">>), JStr(<<"<", " ", "1", "0">>),
     JStr(<<"-", "3">>), JInt(0), JInt(100), JInt(-5), JFloat(27), JInf,
     JList(<<JInt(1)>>)}

\* Further values, tried on the total field of the document-search API.
MoreCountValues ==
    {JNaN, JBool(TRUE), JFloat(-27), JObj(EmptyDict), JStr(<<"1", "_", "0">>),
     JStr(<<" ", "4", "2", "\n">>), JStr(<<"1", "2", ".", "5">>)}

\* The dicts holding `key` with one of `values`, and the dict without it.
Optional(key, values) == {EmptyDict} \cup {key :> v : v \in values}

BlogBodies ==
    {NotJson, JList(<<>>), JNull}
    \cup {JObj(t @@ x) :
            t \in Optional("total", CountValues \cup MoreCountValues),
            x \in Optional("display", {JInt(1)})}

BlogOutcomes ==
    NetworkErrors \cup ErrorResponses \cup {OkResponse(b) : b \in BlogBodies}

\* The first keywordList element, when it is an object.
FirstElements ==
    {JObj(r @@ p @@ m @@ t) :
        r \in Optional("relKeyword", {JStr(<<"K", "I", "W", "I">>), JNull}),
        p \in Optional("monthlyPcQcCnt", CountValues),
        m \in Optional("monthlyMobileQcCnt", CountValues),
        t \in Optional("monthlyTotalQcCnt", {JInt(999)})}

\* The related-keyword entries after the first: one well formed, one malformed.
TailElements ==
    {JObj(("relKeyword" :> JStr(<<"F", "I", "G">>))
          @@ ("monthlyPcQcCnt" :> JInt(10)) @@ ("monthlyMobileQcCnt" :> JStr(<<"2", "0">>))),
     JObj(("monthlyPcQcCnt" :> JStr(<<"<", " ", "1", "0">>))
          @@ ("monthlyMobileQcCnt" :> JNull))}

Tails == UNION {[1..n -> TailElements] : n \in 0..MaxTail}

\* keywordList values that are not a list starting with an object.
OddKeywordLists ==
    {JList(<<>>), JNull, JObj(EmptyDict), JInt(0), JStr(<<>>),
     JStr(<<"x">>), JObj("a" :> JInt(1)), JInt(3), JBool(TRUE),
     JList(<<JNull>>), JList(<<JStr(Kiwi)>>), JList(<<JList(<<>>)>>)}

SearchVolumeBodies ==
    {NotJson, JList(<<>>), JNull, JObj(EmptyDict)}
    \cup {JObj("keywordList" :> l) : l \in OddKeywordLists}
    \cup {JObj("keywordList" :> JList(<<f>> \o t)) : f \in FirstElements, t \in Tails}

SearchVolumeOutcomes ==
    NetworkErrors \cup ErrorResponses
    \cup {OkResponse(b) : b \in SearchVolumeBodies}

(***************************************************************************)
(* The state machine                                                       *)
(***************************************************************************)
Init ==
    /\ env \in Environments
    /\ phase = "importing"
    /\ ctl = "idle"
    /\ endpoint = "none"
    /\ arg = <<>>
    /\ outbound = <<>>
    /\ upstream = None
    /\ response = None

\* Importing main.py: the configuration is read and the client credentials
\* are checked; the RuntimeError ends the process before the app exists.
Startup ==
    /\ phase = "importing"
    /\ phase' = IF StartupOK(env) THEN "serving" ELSE "crashed"
    /\ UNCHANGED <<env, ctl, endpoint, arg, outbound, upstream, response>>

\* GET /health
Health ==
    /\ phase = "serving"
    /\ ctl = "idle"
    /\ endpoint' = "health"
    /\ response' = JSONResponse("status" :> JStr(<<"o", "k">>))
    /\ ctl' = "done"
    /\ UNCHANGED <<env, phase, arg, outbound, upstream>>

\* GET /naver/blog-total, up to the requests.get call.
BlogTotalCall(query) ==
    /\ phase = "serving"
    /\ ctl = "idle"
    /\ endpoint' = "blog_total"
    /\ arg' = query
    /\ outbound' = Append(outbound, BlogRequest(env, query))
    /\ ctl' = "blog_total_get"
    /\ UNCHANGED <<env, phase, upstream, response>>

\* GET /naver/blog-total, from the return of requests.get to the response.
BlogTotalReturn(o) ==
    /\ ctl = "blog_total_get"
    /\ upstream' = o
    /\ response' = BlogTotalResult(arg, o)
    /\ ctl' = "done"
    /\ UNCHANGED <<env, phase, endpoint, arg, outbound>>

\* GET /naver/search-volume, up to the requests.get call or the 500.
SearchVolumeCall(keyword, timestamp) ==
    /\ phase = "serving"
    /\ ctl = "idle"
    /\ endpoint' = "search_volume"
    /\ arg' = keyword
    /\ IF ~AdConfigured(env)
       THEN /\ response' = Misconfigured
            /\ ctl' = "done"
            /\ UNCHANGED outbound
       ELSE /\ outbound' = Append(outbound, SearchadRequest(env, keyword, timestamp))
            /\ ctl' = "search_volume_get"
            /\ UNCHANGED response
    /\ UNCHANGED <<env, phase, upstream>>

\* GET /naver/search-volume, from the return of requests.get to the response.
SearchVolumeReturn(o) ==
    /\ ctl = "search_volume_get"
    /\ upstream' = o
    /\ response' = SearchVolumeResult(arg, o)
    /\ ctl' = "done"
    /\ UNCHANGED <<env, phase, endpoint, arg, outbound>>

\* The response is sent; the server waits for the next request.
NextRequest ==
    /\ ctl = "done"
    /\ ctl' = "idle"
    /\ endpoint' = "none"
    /\ arg' = <<>>
    /\ outbound' = <<>>
    /\ upstream' = None
    /\ response' = None
    /\ UNCHANGED <<env, phase>>

Next ==
    \/ Startup
    \/ Health
    \/ \E query \in Keywords : BlogTotalCall(query)
    \/ \E o \in BlogOutcomes : BlogTotalReturn(o)
    \/ \E keyword \in Keywords, timestamp \in Timestamps :
          SearchVolumeCall(keyword, timestamp)
    \/ \E o \in SearchVolumeOutcomes : SearchVolumeReturn(o)
    \/ NextRequest

Spec == Init /\ [][Next]_vars

TypeOK ==
    /\ env \in Environments
    /\ phase \in {"importing", "serving", "crashed"}
    /\ ctl \in {"idle", "blog_total_get", "search_volume_get", "done"}
    /\ endpoint \in {"none", "health", "blog_total", "search_volume"}
    /\ Len(outbound) <= 1

(***************************************************************************)
(* Vocabulary of the properties                                            *)
(***************************************************************************)
AdSecrets == {"NAVER_AD_API_KEY", "NAVER_AD_SECRET_KEY", "NAVER_AD_CUSTOMER_ID"}
ClientCredentials == {"NAVER_CLIENT_ID", "NAVER_CLIENT_SECRET"}

AbsentOrEmpty(name) == env[name] = Unset \/ env[name] = EnvStr("")

Finished(handler) == endpoint = handler /\ ctl = "done"

GotStatus200 == upstream.kind = "Response" /\ upstream.status_code = 200
GotOtherStatus == upstream.kind = "Response" /\ upstream.status_code # 200
GotNetworkError == upstream.kind = "RequestException"

Succeeded == response.kind = "JSONResponse"

\* The 200 body is an object whose keywordList is a list starting with an object.
HasFirstElement ==
    /\ GotStatus200
    /\ upstream.json # NotJson
    /\ upstream.json.k = "obj"
    /\ "keywordList" \in DOMAIN upstream.json.items
    /\ upstream.json.items["keywordList"].k = "list"
    /\ upstream.json.items["keywordList"].xs # <<>>
    /\ upstream.json.items["keywordList"].xs[1].k = "obj"

FirstElement == upstream.json.items["keywordList"].xs[1]

CountFields == {"monthlyPcQcCnt", "monthlyMobileQcCnt"}

IsNatCount(v) == v.k = "int" /\ v.n >= 0

(***************************************************************************)
(* C1: a search-volume request handled while an ad secret is absent or     *)
(* empty ends with HTTP 500 and issues no outbound call; an outbound call  *)
(* is issued only when all three ad secrets are present and non-empty.     *)
(***************************************************************************)
C1_NoCallWithoutAdSecrets ==
    endpoint = "search_volume" =>
        /\ (\E n \in AdSecrets : AbsentOrEmpty(n)) =>
              /\ ctl = "done"
              /\ response.kind = "HTTPException"
              /\ response.status_code = 500
              /\ outbound = <<>>
              /\ upstream = None
        /\ outbound # <<>> => \A n \in AdSecrets : ~AbsentOrEmpty(n)

C1_Witness ==
    /\ Finished("search_volume")
    /\ env.NAVER_AD_API_KEY = EnvStr("x1")
    /\ env.NAVER_AD_SECRET_KEY = EnvStr("x1")
    /\ env.NAVER_AD_CUSTOMER_ID = EnvStr("")
    /\ response.status_code = 500
    /\ outbound = <<>>

(***************************************************************************)
(* C2: for every upstream 200 whose keywordList starts with an object,     *)
(* search-volume succeeds with both count fields as integers, whatever     *)
(* their upstream value; empty string, null and missing become 0.          *)
(***************************************************************************)
C2_CountsAlwaysCoerced ==
    (Finished("search_volume") /\ HasFirstElement) =>
        /\ Succeeded
        /\ \A f \in CountFields :
              /\ response.content[f].k = "int"
              /\ (\/ f \notin DOMAIN FirstElement.items
                  \/ FirstElement.items[f] \in {JNull, JStr(<<>>)})
                 => response.content[f] = JInt(0)

(***************************************************************************)
(* C3: for every upstream 200 with a JSON object body, blog-total succeeds *)
(* with the original query and an integer total: the integer value of the  *)
(* upstream total when it has one, 0 when it is absent or has none.        *)
(***************************************************************************)
\* Values with an integer value: integers, booleans, finite floats, and
\* strings holding an integer literal.
Coercible(v) ==
    \/ v.k \in {"int", "bool", "float"}
    \/ v.k = "str" /\ PyIntOfStr(v.s).exc = "none"

C3_TotalNeverFails ==
    (Finished("blog_total") /\ GotStatus200 /\ upstream.json # NotJson
        /\ upstream.json.k = "obj") =>
        /\ Succeeded
        /\ response.content["keyword"] = JStr(arg)
        /\ response.content["total"].k = "int"
        /\ (\/ "total" \notin DOMAIN upstream.json.items
            \/ ~Coercible(upstream.json.items["total"]))
           => response.content["total"] = JInt(0)

(***************************************************************************)
(* C4: in both handlers, an upstream answer with a status other than 200   *)
(* ends the request in an error carrying exactly the upstream status code  *)
(* and the upstream raw body as detail; no success payload is produced.    *)
(***************************************************************************)
C4_UpstreamErrorVerbatim ==
    ((Finished("blog_total") \/ Finished("search_volume")) /\ GotOtherStatus) =>
        /\ response.kind = "HTTPException"
        /\ response.status_code = upstream.status_code
        /\ response.detail = upstream.text

C4_Witness ==
    /\ Finished("search_volume")
    /\ GotOtherStatus
    /\ upstream.status_code = 403
    /\ upstream.text = "{\"errorMessage\":\"Not Exist Permission\"}"
    /\ response.status_code = 403

(***************************************************************************)
(* C5: in both handlers, a network-level failure of the outbound call ends *)
(* the request with HTTP 502 whose detail includes the error text, after   *)
(* exactly one outbound call and with no success payload.                  *)
(***************************************************************************)
C5_NetworkErrorIs502 ==
    GotNetworkError =>
        /\ ctl = "done"
        /\ endpoint \in {"blog_total", "search_volume"}
        /\ response.kind = "HTTPException"
        /\ response.status_code = 502
        /\ \E prefix \in {"Naver blog API call failed: ",
                          "Naver search-ad API network error: "} :
              response.detail = prefix \o upstream.text
        /\ Len(outbound) = 1

C5_Witness ==
    /\ Finished("blog_total")
    /\ upstream = RequestException("Read timed out. (read timeout)")
    /\ response.status_code = 502

(***************************************************************************)
(* C6: every search-volume success response has monthlyTotalQcCnt =        *)
(* monthlyPcQcCnt + monthlyMobileQcCnt of that same response, whatever     *)
(* total upstream supplies; without keywordList data all three are 0.      *)
(***************************************************************************)
C6_TotalIsSum ==
    (Finished("search_volume") /\ Succeeded) =>
        /\ response.content["monthlyTotalQcCnt"].n
             = response.content["monthlyPcQcCnt"].n
               + response.content["monthlyMobileQcCnt"].n
        /\ ~HasFirstElement =>
              \A f \in CountFields \cup {"monthlyTotalQcCnt"} :
                  response.content[f] = JInt(0)

C6_Witness ==
    /\ Finished("search_volume")
    /\ Succeeded
    /\ HasFirstElement
    /\ "monthlyTotalQcCnt" \in DOMAIN FirstElement.items
    /\ FirstElement.items["monthlyTotalQcCnt"] = JInt(999)
    /\ response.content["monthlyPcQcCnt"] = JInt(200)
    /\ response.content["monthlyMobileQcCnt"] = JInt(100)
    /\ response.content["monthlyTotalQcCnt"] = JInt(300)

(***************************************************************************)
(* C7: every count in a success response is a non-negative integer: total  *)
(* of blog-total, and the three counts of search-volume.                   *)
(***************************************************************************)
C7_CountsNonNegative ==
    /\ (Finished("blog_total") /\ Succeeded) =>
          IsNatCount(response.content["total"])
    /\ (Finished("search_volume") /\ Succeeded) =>
          \A f \in CountFields \cup {"monthlyTotalQcCnt"} :
              IsNatCount(response.content[f])

(***************************************************************************)
(* C8: in every search-volume success response the keyword is a string:    *)
(* relKeyword of the first keywordList element when present, the input     *)
(* keyword otherwise.                                                      *)
(***************************************************************************)
C8_KeywordIsString ==
    (Finished("search_volume") /\ Succeeded) =>
        /\ response.content["keyword"].k = "str"
        /\ response.content["keyword"] =
              IF HasFirstElement /\ "relKeyword" \in DOMAIN FirstElement.items
              THEN FirstElement.items["relKeyword"]
              ELSE JStr(arg)

\* The part of C8 the code keeps: where the keyword of a success response
\* comes from, whatever its type.
C8_KeywordSource ==
    (Finished("search_volume") /\ Succeeded) =>
        response.content["keyword"] =
            IF HasFirstElement /\ "relKeyword" \in DOMAIN FirstElement.items
            THEN FirstElement.items["relKeyword"]
            ELSE JStr(arg)

(***************************************************************************)
(* C9: the process serves requests if and only if both client credentials  *)
(* are present and non-empty; otherwise start-up fails and no handler      *)
(* runs.  Missing ad secrets never prevent start-up and never make a       *)
(* health or blog-total request fail.                                      *)
(***************************************************************************)
C9_StartupNeedsOnlyClientCredentials ==
    /\ phase = "serving" => \A n \in ClientCredentials : ~AbsentOrEmpty(n)
    /\ phase = "crashed" => \E n \in ClientCredentials : AbsentOrEmpty(n)
    /\ phase # "serving" =>
          /\ ctl = "idle"
          /\ endpoint = "none"
          /\ outbound = <<>>
          /\ response = None
    /\ Finished("health") =>
          response = JSONResponse("status" :> JStr(<<"o", "k">>))
    /\ (Finished("blog_total") /\ GotStatus200
            /\ upstream.json = JObj("total" :> JInt(100))) =>
          response = JSONResponse(("keyword" :> JStr(arg)) @@ ("total" :> JInt(100)))

C9_Witness ==
    /\ \A n \in AdSecrets : env[n] = Unset
    /\ Finished("blog_total")
    /\ response = JSONResponse(("keyword" :> JStr(Fig)) @@ ("total" :> JInt(100)))

(***************************************************************************)
(* C10: the search-volume response depends only on the first keywordList   *)
(* element: replacing the entries after the first by any others, for the   *)
(* same keyword, yields the response the request got.                      *)
(***************************************************************************)
C10_OnlyFirstElementMatters ==
    (Finished("search_volume") /\ HasFirstElement) =>
        \A t \in Tails :
            SearchVolumeResult(arg,
                OkResponse(JObj("keywordList" :> JList(<<FirstElement>> \o t))))
              = response

C10_Witness ==
    /\ Finished("search_volume")
    /\ HasFirstElement
    /\ Len(upstream.json.items["keywordList"].xs) >= 2
    /\ upstream.json.items["keywordList"].xs[2].k = "obj"
    /\ "relKeyword" \notin DOMAIN upstream.json.items["keywordList"].xs[2].items
    /\ Succeeded
    /\ response.content["monthlyTotalQcCnt"] = JInt(300)

====
